---- MODULE Spec2Model ----
(***************************************************************************)
(* A model of h5::array_interface (c++/h5/array_interface.cpp): the         *)
(* stride decomposition get_L_tot_and_strides_h5, the memory dataspace      *)
(* builder make_mem_dspace, and the transfer functions write,               *)
(* write_attribute, get_h5_lengths_type, read and read_attribute, run       *)
(* against a model of the storage library's group, dataset, attribute and   *)
(* dataspace primitives.                                                    *)
(***************************************************************************)
EXTENDS Integers, Sequences, FiniteSets, TLC

VARIABLES g, oattr, hist, last, open, dec

vars == <<g, oattr, hist, last, open, dec>>

(***************************************************************************)
(* Bounds of the model.                                                     *)
(***************************************************************************)
\* largest rank given to get_L_tot_and_strides_h5
MaxDRank == 3
\* largest entry of a stride vector given to get_L_tot_and_strides_h5
MaxStri == 6
\* largest total_size given to get_L_tot_and_strides_h5
MaxTotal == 2
\* largest index used when comparing the two addressings
MaxIdx == 1

(***************************************************************************)
(* Arithmetic helpers.                                                      *)
(***************************************************************************)
Abs(x) == IF x < 0 THEN -x ELSE x

Max(a, b) == IF a < b THEN b ELSE a

RECURSIVE Gcd(_, _)
\* std::gcd: the greatest common divisor of |a| and |b|, gcd(0, 0) = 0
Gcd(a, b) == IF b = 0 THEN Abs(a) ELSE Gcd(b, Abs(a) % Abs(b))

RECURSIVE ProdFrom(_, _)
\* the product of s[k], s[k+1], ..., s[Len(s)] (1 when k > Len(s))
ProdFrom(s, k) == IF k > Len(s) THEN 1 ELSE s[k] * ProdFrom(s, k + 1)

Prod(s) == ProdFrom(s, 1)

RECURSIVE SumTo(_, _)
\* f[1] + ... + f[n]
SumTo(f, n) == IF n = 0 THEN 0 ELSE f[n] + SumTo(f, n - 1)

Const(n, x) == [i \in 1..n |-> x]

(***************************************************************************)
(* get_L_tot_and_strides_h5.  C++ index u is index u + 1 here.              *)
(***************************************************************************)
RECURSIVE GcdDown(_, _, _)
\* for (int v = u - 1; v >= 0; --v) L = std::gcd(L, strides_h5[v]);
\* here v runs from its start value down to 1
GcdDown(s, v, L) == IF v < 1 THEN L ELSE GcdDown(s, v - 1, Gcd(L, s[v]))

\* a mutant of DivPrefix: the division loop starts one index too low
DivPrefixFromBelow(s, u, L, q) ==
  [i \in DOMAIN s |-> IF i <= u - 1
                      THEN (IF L = 0 THEN q ELSE s[i] \div L)
                      ELSE s[i]]

\* for (int v = u; v >= 0; --v) strides_h5[v] /= L;
\* q is the value a division by zero leaves (undefined behaviour)
DivPrefix(s, u, L, q) ==
  [i \in DOMAIN s |-> IF i <= u
                      THEN (IF L = 0 THEN q ELSE s[i] \div L)
                      ELSE s[i]]

\* whether every division of the loop body leaves no remainder
ExactPrefix(s, u, L) == L # 0 /\ \A i \in 1..u : s[i] % L = 0

RECURSIVE DecompLoop(_, _, _)
\* for (int u = rank - 2; u >= 0; --u) { ... }   st = [Ltot, strides, dz, exact]
DecompLoop(u, st, q) ==
  IF u < 1 THEN st
  ELSE LET L == GcdDown(st.strides, u - 1, st.strides[u])
       IN  DecompLoop(u - 1,
                      [Ltot    |-> [st.Ltot EXCEPT ![u + 1] = L],
                       strides |-> DivPrefix(st.strides, u, L, q),
                       dz      |-> st.dz \/ L = 0,
                       exact   |-> st.exact /\ ExactPrefix(st.strides, u, L)],
                      q)

\* the values a division by zero may leave, when it does not trap
Garbage == {0, 1}

\* the state of the function when it returns, had every division by zero left q
DecompRun(stri, rank, total_size, q) ==
  IF rank = 0
  THEN [Ltot |-> <<>>, strides |-> <<>>, dz |-> FALSE, exact |-> TRUE, loop |-> FALSE]
  ELSE IF total_size = 0
  THEN [Ltot |-> Const(rank, 0), strides |-> Const(rank, 1), dz |-> FALSE,
        exact |-> TRUE, loop |-> FALSE]
  ELSE LET r == DecompLoop(rank - 1,
                           [Ltot    |-> [Const(rank, 0) EXCEPT ![1] = total_size],
                            strides |-> [i \in 1..rank |-> stri[i]],
                            dz      |-> FALSE,
                            exact   |-> TRUE],
                           q)
       IN  [Ltot |-> r.Ltot, strides |-> r.strides, dz |-> r.dz, exact |-> r.exact,
            loop |-> TRUE]

\* the outcomes of get_L_tot_and_strides_h5(stri, rank, total_size): one result, or,
\* when a division by zero is executed, a trap or a result built on garbage quotients
get_L_tot_and_strides_h5(stri, rank, total_size) ==
  LET r0 == DecompRun(stri, rank, total_size, 0)
  IN  IF r0.dz
      THEN {[status |-> "sigfpe", Ltot |-> <<>>, strides |-> <<>>, dz |-> TRUE,
             exact |-> FALSE, loop |-> TRUE]}
           \cup {[status |-> "returned"] @@ DecompRun(stri, rank, total_size, q) :
                   q \in Garbage}
      ELSE {[status |-> "returned"] @@ r0}

NoDec == [called |-> FALSE, stri |-> <<>>, rank |-> 0, total |-> 0,
          status |-> "none", Ltot |-> <<>>, strides |-> <<>>, dz |-> FALSE,
          exact |-> TRUE, loop |-> FALSE]

(***************************************************************************)
(* Element types and values.  A buffer is a sequence of integers; an        *)
(* element of type int16 holds a value of the int16 range.                  *)
(***************************************************************************)
Types == {"int16", "int32", "float64"}

\* H5Tget_class
H5Tget_class(ty) == IF ty = "float64" THEN "H5T_FLOAT" ELSE "H5T_INTEGER"

\* the library errors a caller of the attribute primitives can meet: none, or the
\* failure of the named primitive (an I/O error, an invalid type identifier)
WriteFaults == {"none", "H5Awrite"}

ReadFaults == {"none", "H5Tequal", "H5Aread"}

\* hdf5_type_equal(a, b): whether two valid types are the same type
hdf5_type_equal(a, b) == a = b

\* H5Tequal(a, b), an htri_t: positive when equal, zero when not, negative on error
H5Tequal(a, b, fault) ==
  IF fault = "H5Tequal" THEN 0 - 1 ELSE IF a = b THEN 1 ELSE 0

Int16Max == 32767

\* the library's conversion of one element between two numeric types: a value
\* outside the destination's range is set to the nearest end of the range
H5Tconvert(x, from, to) ==
  IF to = "int16"
  THEN (IF x > Int16Max THEN Int16Max
        ELSE IF x < -Int16Max - 1 THEN -Int16Max - 1 ELSE x)
  ELSE x

\* the fill value of an element the library never wrote
FillValue == 0

(***************************************************************************)
(* Dataspaces: an extent (scalar, or simple with dims) and a selection.     *)
(***************************************************************************)
SelAll == [mode |-> "all", offset |-> <<>>, stride |-> <<>>, count |-> <<>>,
           block |-> <<>>]

\* H5Screate(H5S_SCALAR)
H5Screate_scalar == [valid |-> TRUE, kind |-> "scalar", dims |-> <<>>, sel |-> SelAll]

\* H5Screate_simple(rank, dims, nullptr); rank 0 gives a scalar extent
H5Screate_simple(dims) ==
  [valid |-> TRUE, kind |-> IF Len(dims) = 0 THEN "scalar" ELSE "simple",
   dims |-> dims, sel |-> SelAll]

\* H5Sget_simple_extent_npoints: the number of elements of the extent
H5Sget_simple_extent_npoints(ds) == Prod(ds.dims)

\* H5Sget_simple_extent_ndims
H5Sget_simple_extent_ndims(ds) == Len(ds.dims)

\* H5Sselect_hyperslab(ds, H5S_SELECT_SET, offset, stride, count, block);
\* block = <<>> stands for nullptr (unit blocks)
H5Sselect_hyperslab(ds, offset, stride, count, block) ==
  LET rank == Len(ds.dims)
      blk  == IF block = <<>> THEN Const(rank, 1) ELSE block
  IN  IF \E i \in 1..rank : stride[i] = 0
      THEN [ok |-> FALSE, ds |-> ds]
      ELSE IF \E i \in 1..rank : count[i] > 1 /\ stride[i] < blk[i]
      THEN [ok |-> FALSE, ds |-> ds]
      ELSE IF \E i \in 1..rank : count[i] = 0 \/ blk[i] = 0
      THEN [ok |-> TRUE, ds |-> [ds EXCEPT !.sel = [SelAll EXCEPT !.mode = "none"]]]
      ELSE [ok |-> TRUE,
            ds |-> [ds EXCEPT !.sel = [mode |-> "hyper", offset |-> offset,
                                       stride |-> stride, count |-> count,
                                       block |-> blk]]]

\* H5Sget_select_npoints: the number of selected elements
H5Sget_select_npoints(ds) ==
  IF ds.sel.mode = "all" THEN Prod(ds.dims)
  ELSE IF ds.sel.mode = "none" THEN 0
  ELSE Prod([i \in 1..Len(ds.dims) |-> ds.sel.count[i] * ds.sel.block[i]])

\* the coordinates a hyperslab selects along dimension d, in increasing order
HyperCoords(sel, d) ==
  [k \in 1..(sel.count[d] * sel.block[d]) |->
     sel.offset[d] + ((k - 1) \div sel.block[d]) * sel.stride[d]
       + ((k - 1) % sel.block[d])]

RECURSIVE HyperOffsets(_, _)
\* the linear (row-major) offsets of the selected elements of dimensions d.., in
\* the order the library transfers them
HyperOffsets(ds, d) ==
  IF d > Len(ds.dims) THEN <<0>>
  ELSE LET cs  == HyperCoords(ds.sel, d)
           sub == HyperOffsets(ds, d + 1)
           m   == Len(sub)
       IN  IF m = 0 THEN <<>>
           ELSE [k \in 1..(Len(cs) * m) |->
                   cs[((k - 1) \div m) + 1] * ProdFrom(ds.dims, d + 1)
                     + sub[((k - 1) % m) + 1]]

\* the linear offsets of the selection of ds
SelOffsets(ds) ==
  IF ds.sel.mode = "all" THEN [k \in 1..Prod(ds.dims) |-> k - 1]
  ELSE IF ds.sel.mode = "none" THEN <<>>
  ELSE HyperOffsets(ds, 1)

\* whether the selection lies inside the extent
SelValid(ds) ==
  ds.sel.mode # "hyper"
  \/ \A d \in 1..Len(ds.dims) :
       \A k \in 1..Len(HyperCoords(ds.sel, d)) : HyperCoords(ds.sel, d)[k] < ds.dims[d]

(***************************************************************************)
(* The group: a function from names to datasets (NoDs: no link).  A dataset  *)
(* has an element type, extents, the stored elements in row-major order and *)
(* its attributes.  Handles are records [h, raii]: raii says that the code   *)
(* holds the handle in a scope-bound wrapper (h5::object), which releases   *)
(* it when the function exits, by return or by throw.                       *)
(***************************************************************************)
Names == {"a", "b"}

NoDs == [exists |-> FALSE, ty |-> "none", dims |-> <<>>, data |-> <<>>,
         attrs |-> {}]

Owned(kind) == [h |-> kind, raii |-> TRUE]

Raw(kind) == [h |-> kind, raii |-> FALSE]

\* the handles still open once the wrappers of the exiting function are destroyed
Leaked(hnd) == Cardinality({i \in DOMAIN hnd : ~hnd[i].raii})

\* group::unlink(name): removes the link when there is one
unlink(grp, name) == [grp EXCEPT ![name] = NoDs]

\* group::has_key / the lookup made by group::open_dataset(name)
HasDataset(grp, name) == grp[name].exists

\* H5Dcreate2(g, name, ty, file_dspace, H5P_DEFAULT, cparms, H5P_DEFAULT): fails
\* when the name is already linked or the dataspace is invalid
H5Dcreate2(grp, name, ty, file_dspace) ==
  IF grp[name].exists \/ ~file_dspace.valid
  THEN [ok |-> FALSE, g |-> grp]
  ELSE [ok |-> TRUE,
        g  |-> [grp EXCEPT ![name] =
                  [exists |-> TRUE, ty |-> ty, dims |-> file_dspace.dims,
                   data |-> Const(Prod(file_dspace.dims), FillValue),
                   attrs |-> {}]]]

\* H5Dwrite(ds, ty, mem_dspace, H5S_ALL, H5P_DEFAULT, buf): the selected elements
\* of buf, in selection order, become the elements of the dataset
H5Dwrite(grp, name, ty, mem_dspace, buf) ==
  LET d   == grp[name]
      off == SelOffsets(mem_dspace)
  IN  IF H5Sget_select_npoints(mem_dspace) # Prod(d.dims) \/ ~SelValid(mem_dspace)
      THEN [ok |-> FALSE, g |-> grp]
      ELSE [ok |-> TRUE,
            g  |-> [grp EXCEPT ![name].data =
                      [k \in 1..Len(off) |-> H5Tconvert(buf[off[k] + 1], ty, d.ty)]]]

\* H5Dread(ds, ty, mem_dspace, file_dspace, H5P_DEFAULT, buf): the elements of the
\* dataset go, in order, to the selected elements of buf
H5Dread(d, ty, mem_dspace, file_dspace, buf) ==
  LET off == SelOffsets(mem_dspace)
  IN  IF H5Sget_select_npoints(mem_dspace) # H5Sget_select_npoints(file_dspace)
         \/ ~SelValid(mem_dspace)
      THEN [ok |-> FALSE, buf |-> buf]
      ELSE [ok |-> TRUE,
            buf |-> [i \in DOMAIN buf |->
                       IF \E k \in 1..Len(off) : off[k] + 1 = i
                       THEN H5Tconvert(d.data[CHOOSE k \in 1..Len(off) : off[k] + 1 = i],
                                       d.ty, ty)
                       ELSE buf[i]]]

\* H5Dget_space(ds)
H5Dget_space(d) == H5Screate_simple(d.dims)

\* H5LTfind_attribute(obj, name) on the attribute set of an object
H5LTfind_attribute(attrs, name) == IF \E a \in attrs : a.name = name THEN 1 ELSE 0

\* h5_write_attribute(ds, "__complex__", "1"): a string attribute on the dataset
h5_write_attribute(grp, name, key, val) ==
  [grp EXCEPT ![name].attrs =
     @ \cup {[name |-> key, ty |-> "string", dims |-> <<>>, data |-> <<val>>]}]

(***************************************************************************)
(* make_mem_dspace                                                          *)
(***************************************************************************)
Rank(v) == Len(v.count)

make_mem_dspace(v) ==
  IF Rank(v) = 0
  THEN [status |-> "ok", ds |-> H5Screate_scalar, trace |-> <<"H5Screate">>,
        hnd |-> <<Owned("dataspace")>>]
  ELSE LET ds == H5Screate_simple(v.Ltot)
       IN  IF ~ds.valid
           THEN [status |-> "Cannot create the dataset", ds |-> ds,
                 trace |-> <<"H5Screate_simple">>, hnd |-> <<>>]
           ELSE LET r == H5Sselect_hyperslab(ds, v.offset, v.stride, v.count, v.block)
                IN  [status |-> IF r.ok THEN "ok" ELSE "Cannot set hyperslab",
                     ds     |-> r.ds,
                     trace  |-> <<"H5Screate_simple", "H5Sselect_hyperslab">>,
                     hnd    |-> <<Owned("dataspace")>>]

(***************************************************************************)
(* write                                                                    *)
(***************************************************************************)
\* a mutant of WriteTarget: the entry is not unlinked
WriteTargetKeepsEntry(grp, name) == grp

\* line 74: g.unlink(name)
WriteTarget(grp, name) == unlink(grp, name)

\* lines 78-85: the dataset creation properties
WriteCparms(v, compress) ==
  IF compress /\ Rank(v) # 0
  THEN [trace |-> <<"H5Pcreate", "H5Pset_chunk", "H5Pset_deflate">>,
        chunk |-> [i \in 1..Rank(v) |-> Max(v.count[i], 1)],
        hnd   |-> <<Owned("proplist")>>]
  ELSE [trace |-> <<>>, chunk |-> <<>>, hnd |-> <<>>]

\* line 96: whether write calls H5Dwrite
WriteTransfers(mem_dspace) == H5Sget_simple_extent_npoints(mem_dspace) > 0

\* a mutant of WriteMarks: the marker is written whatever is_complex says
WriteMarksAlways(v) == TRUE

\* line 102: whether write adds the attribute __complex__
WriteMarks(v) == v.cplx

write(grp, name, v, compress) ==
  LET g1 == WriteTarget(grp, name)
      cp == WriteCparms(v, compress)
      file_dspace == H5Screate_simple(v.count)
      cr == H5Dcreate2(g1, name, v.ty, file_dspace)
      t1 == <<"unlink">> \o cp.trace \o <<"H5Screate_simple", "H5Dcreate2">>
      h1 == cp.hnd \o <<Owned("dataspace")>>
  IN  IF ~cr.ok
      THEN [status |-> "Cannot create the dataset", g |-> g1, trace |-> t1, hnd |-> h1]
      ELSE
        LET m  == make_mem_dspace(v)
            t2 == t1 \o m.trace
            h2 == h1 \o <<Owned("dataset")>> \o m.hnd
        IN  IF m.status # "ok"
            THEN [status |-> m.status, g |-> cr.g, trace |-> t2, hnd |-> h2]
            ELSE
              LET tr == WriteTransfers(m.ds)
                  w  == H5Dwrite(cr.g, name, v.ty, m.ds, v.buf)
                  t3 == IF tr THEN t2 \o <<"H5Dwrite">> ELSE t2
                  g3 == IF tr THEN w.g ELSE cr.g
              IN  IF tr /\ ~w.ok
                  THEN [status |-> "Error writing the scalar dataset", g |-> cr.g,
                        trace |-> t3, hnd |-> h2]
                  ELSE IF WriteMarks(v)
                  THEN [status |-> "ok",
                        g      |-> h5_write_attribute(g3, name, "__complex__", "1"),
                        trace  |-> t3 \o <<"h5_write_attribute">>, hnd |-> h2]
                  ELSE [status |-> "ok", g |-> g3, trace |-> t3, hnd |-> h2]

(***************************************************************************)
(* get_h5_lengths_type                                                      *)
(***************************************************************************)
NoLt == [lengths |-> <<>>, ty |-> "none", has_complex_attribute |-> FALSE]

get_h5_lengths_type(grp, name) ==
  IF ~HasDataset(grp, name)
  THEN [status |-> "Cannot open the dataset", lt |-> NoLt, trace |-> <<"open_dataset">>,
        hnd |-> <<>>]
  ELSE LET d      == grp[name]
           dspace == H5Dget_space(d)
           rank   == H5Sget_simple_extent_ndims(dspace)
       IN  [status |-> "ok",
            lt     |-> [lengths |-> [i \in 1..rank |-> dspace.dims[i]],
                        ty      |-> d.ty,
                        has_complex_attribute |->
                          H5LTfind_attribute(d.attrs, "__complex__") # 0],
            trace  |-> <<"open_dataset", "H5LTfind_attribute", "H5Dget_space",
                         "H5Sget_simple_extent_ndims", "H5Sget_simple_extent_dims",
                         "H5Dget_type">>,
            hnd    |-> <<Owned("dataset"), Owned("dataspace"), Owned("datatype")>>]

(***************************************************************************)
(* read                                                                     *)
(***************************************************************************)
\* a mutant of TypeClassMismatch: any unequal type is refused
TypeClassMismatchExact(v, lt) == ~hdf5_type_equal(v.ty, lt.ty)

\* line 149
TypeClassMismatch(v, lt) == H5Tget_class(v.ty) # H5Tget_class(lt.ty)

\* line 153
TypeWarning(v, lt) == ~hdf5_type_equal(v.ty, lt.ty)

\* line 157
RankMismatch(v, lt) == Len(lt.lengths) # Rank(v)

\* a mutant of LengthsMismatch: the extents are not compared
LengthsMismatchNever(v, lt) == FALSE

\* line 161
LengthsMismatch(v, lt) == lt.lengths # v.count

\* a mutant of ReadTransfers: a dataset of one element is not read
ReadTransfersMany(file_dspace) == H5Sget_simple_extent_npoints(file_dspace) > 1

\* line 164: whether read calls H5Dread
ReadTransfers(file_dspace) == H5Sget_simple_extent_npoints(file_dspace) > 0

read(grp, name, v, lt) ==
  IF ~HasDataset(grp, name)
  THEN [status |-> "Cannot open the dataset", buf |-> v.buf,
        trace |-> <<"open_dataset">>, hnd |-> <<>>]
  ELSE
    LET d  == grp[name]
        file_dspace == H5Dget_space(d)
        h1 == <<Owned("dataset"), Owned("dataspace")>>
        t1 == <<"open_dataset", "H5Dget_space">>
    IN  IF TypeClassMismatch(v, lt)
        THEN [status |-> "Incompatible types in h5_read", buf |-> v.buf, trace |-> t1,
              hnd |-> h1]
        ELSE
          LET t2 == IF TypeWarning(v, lt) THEN t1 \o <<"WARNING">> ELSE t1
          IN  IF RankMismatch(v, lt)
              THEN [status |-> "h5 read. Rank mismatch", buf |-> v.buf, trace |-> t2,
                    hnd |-> h1]
              ELSE IF LengthsMismatch(v, lt)
              THEN [status |-> "h5 read. Lengths mismatch", buf |-> v.buf, trace |-> t2,
                    hnd |-> h1]
              ELSE
                LET m  == make_mem_dspace(v)
                    t3 == t2 \o m.trace
                    h3 == h1 \o m.hnd
                IN  IF m.status # "ok"
                    THEN [status |-> m.status, buf |-> v.buf, trace |-> t3, hnd |-> h3]
                    ELSE IF ~ReadTransfers(file_dspace)
                    THEN [status |-> "ok", buf |-> v.buf, trace |-> t3, hnd |-> h3]
                    ELSE
                      LET r == H5Dread(d, v.ty, m.ds, file_dspace, v.buf)
                      IN  [status |-> IF r.ok THEN "ok"
                                      ELSE "Error reading the scalar dataset",
                           buf    |-> r.buf,
                           trace  |-> t3 \o <<"H5Dread">>, hnd |-> h3]

(***************************************************************************)
(* write_attribute and read_attribute, on the attribute set of one object.  *)
(***************************************************************************)
\* a mutant of AttrPresent: the existence test is skipped
AttrPresentNever(attrs, name) == FALSE

\* line 109
AttrPresent(attrs, name) == H5LTfind_attribute(attrs, name) # 0

\* H5Acreate2(obj, name, ty, space, ...): fails when the attribute exists; the new
\* attribute takes the extent of the dataspace
H5Acreate2(attrs, name, ty, space) ==
  IF \E a \in attrs : a.name = name
  THEN [ok |-> FALSE, attrs |-> attrs]
  ELSE [ok |-> TRUE,
        attrs |-> attrs \cup {[name |-> name, ty |-> ty, dims |-> space.dims,
                               data |-> Const(Prod(space.dims), FillValue)]}]

\* the attribute called name
AttrOf(attrs, name) == CHOOSE a \in attrs : a.name = name

\* H5Awrite(attr, ty, buf): the whole extent of the attribute is copied from buf;
\* on an error nothing is written
H5Awrite(attrs, name, ty, buf, fault) ==
  LET a == AttrOf(attrs, name)
  IN  IF fault = "H5Awrite"
      THEN [ok |-> FALSE, attrs |-> attrs]
      ELSE [ok |-> TRUE,
            attrs |-> (attrs \ {a})
                        \cup {[a EXCEPT !.data = [i \in 1..Prod(a.dims) |->
                                                    H5Tconvert(buf[i], ty, a.ty)]]}]

\* H5Aread(attr, ty, buf): the one element of a scalar attribute goes to buf; on an
\* error buf is left as it was
H5Aread(a, ty, buf, fault) ==
  IF fault = "H5Aread"
  THEN [ok |-> FALSE, buf |-> buf]
  ELSE [ok |-> TRUE, buf |-> [buf EXCEPT ![1] = H5Tconvert(a.data[1], a.ty, ty)]]

write_attribute(attrs, name, v, fault) ==
  IF AttrPresent(attrs, name)
  THEN [status |-> "The attribute is already present. Can not overwrite",
        attrs |-> attrs, trace |-> <<"H5LTfind_attribute">>, hnd |-> <<>>]
  ELSE
    LET m  == make_mem_dspace(v)
        t1 == <<"H5LTfind_attribute">> \o m.trace
    IN  IF m.status # "ok"
        THEN [status |-> m.status, attrs |-> attrs, trace |-> t1, hnd |-> m.hnd]
        ELSE
          LET c == H5Acreate2(attrs, name, v.ty, m.ds)
          IN  IF ~c.ok
              THEN [status |-> "Cannot create the attribute", attrs |-> attrs,
                    trace |-> t1 \o <<"H5Acreate2">>, hnd |-> m.hnd]
              ELSE
                LET w == H5Awrite(c.attrs, name, v.ty, v.buf, fault)
                IN  [status |-> IF w.ok THEN "ok" ELSE "Cannot write the attribute",
                     attrs  |-> w.attrs,
                     trace  |-> t1 \o <<"H5Acreate2", "H5Awrite">>,
                     hnd    |-> m.hnd \o <<Owned("attribute")>>]

\* line 183: the handle H5Aget_type returns goes straight to H5Tequal
AttrTypeHandle == Raw("datatype")

read_attribute(attrs, name, v, fault) ==
  IF ~\E a \in attrs : a.name = name
  THEN [status |-> "Cannot open the attribute", buf |-> v.buf, trace |-> <<"H5Aopen">>,
        hnd |-> <<>>]
  ELSE
    LET a  == AttrOf(attrs, name)
        h1 == <<Owned("attribute"), Owned("dataspace")>>
        t1 == <<"H5Aopen", "H5Aget_space">>
    IN  IF Len(a.dims) # 0
        THEN [status |-> "Reading a scalar attribute and got rank !=0", buf |-> v.buf,
              trace |-> t1, hnd |-> h1]
        ELSE
          LET h2 == h1 \o <<AttrTypeHandle>>
              t2 == t1 \o <<"H5Aget_type", "H5Tequal">>
              eq == H5Tequal(a.ty, v.ty, fault)
          IN  IF eq < 0
              THEN [status |-> "Type comparison failure in reading attribute",
                    buf |-> v.buf, trace |-> t2, hnd |-> h2]
              ELSE IF eq = 0
              THEN [status |-> "Type mismatch in reading attribute", buf |-> v.buf,
                    trace |-> t2, hnd |-> h2]
              ELSE
                LET rd == H5Aread(a, v.ty, v.buf, fault)
                IN  [status |-> IF rd.ok THEN "ok" ELSE "Cannot read the attribute",
                     buf    |-> rd.buf,
                     trace  |-> t2 \o <<"H5Aread">>, hnd |-> h2]

(***************************************************************************)
(* The views given to the transfer functions.                               *)
(***************************************************************************)
\* largest rank of a view
MaxRank == 3

\* one dimension of a view: total extent L, and the hyperslab's offset, stride, count
Dim(L, off, str, cnt) == [L |-> L, off |-> off, str |-> str, cnt |-> cnt]

DimSpecs ==
  { Dim(2, 0, 1, 2),     \* the whole of a 2-element extent
    Dim(2, 1, 1, 1),     \* the second element of two
    Dim(2, 0, 1, 0),     \* nothing of a 2-element extent
    Dim(0, 0, 1, 0),     \* an empty extent
    Dim(2, 0, 0, 1),     \* a zero stride: the selection is refused
    Dim(1, 1, 1, 1) }    \* a selection outside the extent: the transfer is refused

\* block vectors: 0 stands for an empty vector, b > 0 for blocks of b in every dimension
MaxBlock == 1

\* the value in every element of a buffer allocated to read into
Blank == 0 - 1

MkView(ty, cplx, dims, blk, buf) ==
  [ty     |-> ty,
   cplx   |-> cplx,
   Ltot   |-> [i \in 1..Len(dims) |-> dims[i].L],
   offset |-> [i \in 1..Len(dims) |-> dims[i].off],
   stride |-> [i \in 1..Len(dims) |-> dims[i].str],
   count  |-> [i \in 1..Len(dims) |-> dims[i].cnt],
   block  |-> IF blk = 0 THEN <<>> ELSE Const(Len(dims), blk),
   buf    |-> buf]

\* the dimensions given to the views of rank 2 and more
CoreDims == {Dim(2, 0, 1, 2), Dim(2, 1, 1, 1)}

\* a slab: the dimensions of a view and its block vector; rank 1 takes every
\* dimension and block, rank 2 every pair of CoreDims, the ranks above one of
\* CoreDims in all their dimensions
Slabs ==
  {[dims |-> <<>>, blk |-> 0]}
  \cup {[dims |-> <<d>>, blk |-> b] : d \in DimSpecs, b \in 0..MaxBlock}
  \cup {[dims |-> <<d, e>>, blk |-> 0] : d \in CoreDims, e \in CoreDims}
  \cup {[dims |-> [i \in 1..r |-> d], blk |-> 0] : d \in CoreDims, r \in 3..MaxRank}

\* the number of elements of the buffer behind a view of these dimensions
BufLen(dims) == Prod([i \in 1..Len(dims) |-> dims[i].L])

\* element type and is_complex of the views written: complex data are pairs of floats
SrcKinds == {k \in Types \X BOOLEAN : k[2] => H5Tget_class(k[1]) = "H5T_FLOAT"}

\* the first element of a caller's buffer (the following ones count up from it);
\* from the second base the second element is beyond the int16 range
Bases == {1, Int16Max}

\* the content of a caller's buffer of n elements of type ty
Buffer(ty, base, n) == [i \in 1..n |-> H5Tconvert(base + i - 1, "int32", ty)]

\* views holding data to write: the buffers of rank 0 and 1 start from every base
SrcViews ==
  {v \in {MkView(k[1], k[2], s.dims, s.blk, Buffer(k[1], base, BufLen(s.dims))) :
            k \in SrcKinds, s \in Slabs, base \in Bases} :
     Rank(v) <= 1 \/ v.buf[1] = 1}

\* views to read into
DstViews ==
  {MkView(ty, FALSE, s.dims, s.blk, Const(BufLen(s.dims), Blank)) :
     ty \in Types, s \in Slabs}

(***************************************************************************)
(* What a caller sees of a view, stated without the library: the elements   *)
(* its hyperslab designates, in row-major order of the index vectors.       *)
(***************************************************************************)
\* a view the library accepts: positive strides, unit blocks, selection inside L_tot
ValidView(v) ==
  \A d \in 1..Rank(v) :
    /\ v.stride[d] > 0
    /\ v.block = <<>> \/ v.block[d] = 1
    /\ v.count[d] > 0 => v.offset[d] + (v.count[d] - 1) * v.stride[d] < v.Ltot[d]

\* the position in the buffer of the k-th selected element (k from 0)
Addr(v, k) ==
  SumTo([d \in 1..Rank(v) |->
           (v.offset[d] + ((k \div ProdFrom(v.count, d + 1)) % v.count[d]) * v.stride[d])
             * ProdFrom(v.Ltot, d + 1)],
        Rank(v))

\* the elements of buf that the hyperslab of v designates
Selected(v, buf) == [k \in 1..Prod(v.count) |-> buf[Addr(v, k - 1) + 1]]

\* the number of elements the memory dataspace of v selects (-1: it cannot be built)
MemSelected(v) ==
  LET m == make_mem_dspace(v)
  IN  IF m.status = "ok" THEN H5Sget_select_npoints(m.ds) ELSE 0 - 1

(***************************************************************************)
(* State.  g: the datasets of the group.  oattr: the attributes of the      *)
(* object given to write_attribute and read_attribute.  open: the library    *)
(* handles open between calls.  last: the call in progress and what it      *)
(* returns ("idle" between calls).                                          *)
(* hist: per name, the most recent call of write and, in oklast, the most   *)
(* recent one that returned successfully (a history variable).              *)
(* dec: the last call of get_L_tot_and_strides_h5.                          *)
(***************************************************************************)
NoWrite == [ty |-> "none", count |-> <<>>, cplx |-> FALSE, sel |-> <<>>]

NoHist == [called |-> FALSE, ok |-> FALSE, ty |-> "none", count |-> <<>>,
           cplx |-> FALSE, sel |-> <<>>, oklast |-> NoWrite]

NoLast == [op |-> "idle", name |-> "", status |-> "none", trace |-> <<>>,
           leak |-> 0, memsel |-> 0, flags |-> {}, buf0 |-> <<>>, buf |-> <<>>,
           got |-> <<>>, lt |-> NoLt, pre |-> {}]

InTrace(x) == \E i \in DOMAIN last.trace : last.trace[i] = x

Init ==
  /\ g = [n \in Names |-> NoDs]
  /\ oattr = {}
  /\ hist = [n \in Names |-> NoHist]
  /\ last = NoLast
  /\ open = 0
  /\ dec = NoDec

Write(name, v, compress) ==
  LET r  == write(g, name, v, compress)
      ok == r.status = "ok"
  IN  /\ last.op = "idle"
      /\ g' = r.g
      /\ hist' = [hist EXCEPT ![name] =
                    [called |-> TRUE, ok |-> ok, ty |-> v.ty, count |-> v.count,
                     cplx |-> v.cplx,
                     sel  |-> IF ok THEN Selected(v, v.buf) ELSE <<>>,
                     oklast |-> IF ok
                                THEN [ty |-> v.ty, count |-> v.count, cplx |-> v.cplx,
                                      sel |-> Selected(v, v.buf)]
                                ELSE hist[name].oklast]]
      /\ last' = [op |-> "write", name |-> name, status |-> r.status,
                  trace |-> r.trace, leak |-> Leaked(r.hnd),
                  memsel |-> MemSelected(v),
                  flags |-> IF g[name].exists THEN {"existed"} ELSE {}] @@ NoLast
      /\ open' = open + Leaked(r.hnd)
      /\ UNCHANGED <<oattr, dec>>

Probe(name) ==
  LET r == get_h5_lengths_type(g, name)
  IN  /\ last.op = "idle"
      /\ last' = [op |-> "probe", name |-> name, status |-> r.status,
                  trace |-> r.trace, lt |-> r.lt] @@ NoLast
      /\ UNCHANGED <<g, oattr, hist, open, dec>>

\* the h5_lengths_type a caller passes to read: the one probed under some name, or
\* one made up to match the view
LtFrom(src, v) ==
  IF src = "view"
  THEN [lengths |-> v.count, ty |-> v.ty, has_complex_attribute |-> FALSE]
  ELSE get_h5_lengths_type(g, src).lt

Read(name, src, v) ==
  LET lt == LtFrom(src, v)
      r  == read(g, name, v, lt)
  IN  /\ last.op = "idle"
      /\ src \in Names => HasDataset(g, src)
      /\ last' = [op |-> "read", name |-> name, status |-> r.status,
                  trace |-> r.trace, leak |-> Leaked(r.hnd),
                  flags |->
                    {f \in {"class", "type", "rank", "lengths", "probed", "like",
                            "valid"} :
                       \/ f = "class" /\ H5Tget_class(v.ty) # H5Tget_class(lt.ty)
                       \/ f = "type" /\ v.ty # lt.ty
                       \/ f = "rank" /\ Len(lt.lengths) # Rank(v)
                       \/ f = "lengths" /\ lt.lengths # v.count
                       \/ f = "probed" /\ src = name
                       \/ f = "like" /\ v.ty = hist[name].ty
                                     /\ v.count = hist[name].count
                       \/ f = "valid" /\ ValidView(v)},
                  buf0 |-> v.buf, buf |-> r.buf,
                  got |-> IF ValidView(v) THEN Selected(v, r.buf) ELSE <<>>]
                 @@ NoLast
      /\ open' = open + Leaked(r.hnd)
      /\ UNCHANGED <<g, oattr, hist, dec>>

\* the caller takes the result of the call
Return ==
  /\ last.op # "idle"
  /\ last' = NoLast
  /\ UNCHANGED <<g, oattr, hist, open, dec>>

(***************************************************************************)
(* The dataset calls on a group of two names: "a" takes every view, "b" the  *)
(* scalars written and read in between.                                     *)
(***************************************************************************)
ScalarSrcViews == {v \in SrcViews : Rank(v) = 0 /\ v.buf[1] = 1}

ScalarDstViews == {v \in DstViews : Rank(v) = 0}

Next ==
  \/ \E v \in SrcViews, compress \in BOOLEAN : Write("a", v, compress)
  \/ \E v \in ScalarSrcViews, compress \in BOOLEAN : Write("b", v, compress)
  \/ \E name \in Names : Probe(name)
  \/ \E src \in {"a", "view"}, v \in DstViews : Read("a", src, v)
  \/ \E v \in ScalarDstViews : Read("b", "b", v)
  \/ Return

Spec == Init /\ [][Next]_vars

(***************************************************************************)
(* The attribute calls on one object.                                       *)
(***************************************************************************)
AttrNames == {"x", "y"}

\* the handles a caller lets accumulate before it stops calling
MaxHandles == 2

WriteAttribute(name, v, fault) ==
  LET r == write_attribute(oattr, name, v, fault)
  IN  /\ last.op = "idle"
      /\ oattr' = r.attrs
      /\ last' = [op |-> "write_attribute", name |-> name, status |-> r.status,
                  trace |-> r.trace, leak |-> Leaked(r.hnd),
                  flags |-> IF \E a \in oattr : a.name = name THEN {"present"} ELSE {},
                  pre |-> oattr] @@ NoLast
      /\ open' = open + Leaked(r.hnd)
      /\ UNCHANGED <<g, hist, dec>>

ReadAttribute(name, v, fault) ==
  LET r == read_attribute(oattr, name, v, fault)
  IN  /\ last.op = "idle"
      /\ open < MaxHandles
      /\ last' = [op |-> "read_attribute", name |-> name, status |-> r.status,
                  trace |-> r.trace, leak |-> Leaked(r.hnd),
                  flags |->
                    {f \in {"present", "scalar", "class", "type"} :
                       \E a \in oattr :
                         /\ a.name = name
                         /\ \/ f = "present"
                            \/ f = "scalar" /\ a.dims = <<>>
                            \/ f = "class" /\ H5Tget_class(a.ty) # H5Tget_class(v.ty)
                            \/ f = "type" /\ a.ty # v.ty},
                  buf0 |-> v.buf, buf |-> r.buf, pre |-> oattr] @@ NoLast
      /\ open' = open + Leaked(r.hnd)
      /\ UNCHANGED <<g, oattr, hist, dec>>

\* views of rank 0 and 1, to write as attributes
AttrSrcViews == {v \in SrcViews : Rank(v) <= 1}

\* views of rank 0 and 1 with room for the one element read_attribute transfers
AttrDstViews == {v \in DstViews : Rank(v) <= 1 /\ Len(v.buf) >= 1}

NextAttr ==
  \/ \E name \in AttrNames, v \in AttrSrcViews, fault \in WriteFaults :
       WriteAttribute(name, v, fault)
  \/ \E name \in AttrNames, v \in AttrDstViews, fault \in ReadFaults :
       ReadAttribute(name, v, fault)
  \/ Return

SpecAttr == Init /\ [][NextAttr]_vars

(***************************************************************************)
(* Datasets under one name and scalar attributes, for what read and          *)
(* read_attribute make of a type that differs from the stored one.          *)
(***************************************************************************)
NextTypes ==
  \/ \E v \in AttrSrcViews, compress \in BOOLEAN : Write("a", v, compress)
  \/ \E src \in {"a", "view"}, v \in AttrDstViews : Read("a", src, v)
  \/ \E v \in ScalarSrcViews, fault \in WriteFaults : WriteAttribute("x", v, fault)
  \/ \E v \in ScalarDstViews, fault \in ReadFaults : ReadAttribute("x", v, fault)
  \/ Return

SpecTypes == Init /\ [][NextTypes]_vars

(***************************************************************************)
(* Calls of get_L_tot_and_strides_h5.                                       *)
(***************************************************************************)
Decompose(stri, rank, total_size) ==
  /\ ~dec.called
  /\ dec' \in {[called |-> TRUE, stri |-> stri, rank |-> rank, total |-> total_size]
                 @@ r : r \in get_L_tot_and_strides_h5(stri, rank, total_size)}
  /\ UNCHANGED <<g, oattr, hist, last, open>>

DecReturn ==
  /\ dec.called
  /\ dec' = NoDec
  /\ UNCHANGED <<g, oattr, hist, last, open>>

NextDecomp ==
  \/ \E rank \in 0..MaxDRank, total_size \in 0..MaxTotal :
       \E stri \in [1..rank -> 0..MaxStri] : Decompose(stri, rank, total_size)
  \/ DecReturn

SpecDecomp == Init /\ [][NextDecomp]_vars

(***************************************************************************)
(* Properties.                                                              *)
(***************************************************************************)
Marker == [name |-> "__complex__", ty |-> "string", dims |-> <<>>, data |-> <<"1">>]

OtherName(n) == CHOOSE m \in Names : m # n

\* the dataset a successful write of the view recorded in h leaves
Written(h) ==
  [exists |-> TRUE, ty |-> h.ty, dims |-> h.count, data |-> h.sel,
   attrs |-> IF h.cplx THEN {Marker} ELSE {}]

\* the dataset a write leaves when it fails after H5Dcreate2
HalfCreated(h) ==
  [exists |-> TRUE, ty |-> h.ty, dims |-> h.count,
   data |-> Const(Prod(h.count), FillValue), attrs |-> {}]

\* C1: a read into a valid view of the type and hyperslab counts last written under
\* the name, with the h5_lengths_type probed under that name, after a write that
\* returned successfully, succeeds and leaves in the view the elements the written
\* view selected, whatever compress was and whatever was written under the other name
C1_RoundTrip ==
  (/\ last.op = "read"
   /\ {"probed", "like", "valid"} \subseteq last.flags
   /\ hist[last.name].ok)
  => /\ last.status = "ok"
     /\ last.got = hist[last.name].sel

C1_Witness ==
  /\ last.op = "read"
  /\ {"probed", "like", "valid"} \subseteq last.flags
  /\ hist[last.name].ok
  /\ Len(hist[last.name].count) = 3
  /\ Len(last.got) = 8
  /\ last.got = hist[last.name].sel
  /\ InTrace("H5Dread")
  /\ g[OtherName(last.name)].exists

\* C2 as stated: a write to a name that holds a dataset never fails to create the
\* dataset, and what is stored under a name has the type, the shape, the contents and
\* the attributes of the most recent successful write to it
C2_StoredIsLastSuccessfulWrite ==
  /\ last.op = "write" => last.status # "Cannot create the dataset"
  /\ \A n \in Names : g[n].exists => g[n] = Written(hist[n].oklast)

\* C2, amended: a write to a name that holds a dataset never fails to create the
\* dataset, and what is stored under a name comes from the most recent write to it
\* alone: the type, the hyperslab counts, the selected elements and the marker of
\* that write when it returned successfully, a dataset of its type and counts with
\* no data written when it failed, and nothing of an earlier dataset in either case
C2_Overwrite ==
  /\ last.op = "write" => last.status # "Cannot create the dataset"
  /\ \A n \in Names :
       IF ~hist[n].called THEN g[n] = NoDs
       ELSE IF hist[n].ok THEN g[n] = Written(hist[n])
       ELSE g[n] = HalfCreated(hist[n])

C2_Witness ==
  /\ last.op = "write"
  /\ "existed" \in last.flags
  /\ last.status = "ok"
  /\ Len(g[last.name].data) = 4
  /\ g[last.name] = Written(hist[last.name])

\* C3: write_attribute under the name of an existing attribute fails on the
\* existence test, with nothing created or written, and leaves the attributes of the
\* object as they were
C3_AttributeNoOverwrite ==
  (last.op = "write_attribute" /\ "present" \in last.flags)
  => /\ last.status = "The attribute is already present. Can not overwrite"
     /\ last.trace = <<"H5LTfind_attribute">>
     /\ oattr = last.pre

C3_Witness ==
  /\ last.op = "write_attribute"
  /\ "present" \in last.flags
  /\ last.status # "ok"
  /\ Cardinality(oattr) = 2
  /\ oattr = last.pre

HasMarker(d) == \E a \in d.attrs : a.name = "__complex__"

\* C4 as stated: a stored dataset carries the marker exactly when the most recent
\* successful write to its name had is_complex
C4_MarkerOfLastSuccessfulWrite ==
  \A n \in Names : g[n].exists => (HasMarker(g[n]) <=> hist[n].oklast.cplx)

\* C4, amended: a stored dataset carries the marker, with value "1", exactly when
\* the most recent write to its name returned successfully and had is_complex, and
\* get_h5_lengths_type reports has_complex_attribute exactly then
C4_MarkerOfLastWrite ==
  /\ \A n \in Names :
       g[n].exists =>
         /\ HasMarker(g[n]) <=> (hist[n].ok /\ hist[n].cplx)
         /\ \A a \in g[n].attrs : a.name = "__complex__" => a = Marker
  /\ (last.op = "probe" /\ last.status = "ok")
       => (last.lt.has_complex_attribute
             <=> (hist[last.name].ok /\ hist[last.name].cplx))

C4_Witness ==
  /\ last.op = "probe"
  /\ last.status = "ok"
  /\ last.lt.has_complex_attribute
  /\ hist[last.name].ok
  /\ hist[last.name].cplx
  /\ g[OtherName(last.name)].exists
  /\ ~HasMarker(g[OtherName(last.name)])

\* C5: a read whose view differs from the h5_lengths_type in type class, in rank or
\* in extents fails without calling H5Dread and leaves the buffer as it was
C5_ReadValidation ==
  (last.op = "read" /\ last.flags \cap {"class", "rank", "lengths"} # {})
  => /\ last.status # "ok"
     /\ ~InTrace("H5Dread")
     /\ ~InTrace("H5Screate") /\ ~InTrace("H5Screate_simple")
     /\ last.buf = last.buf0

C5_Witness ==
  /\ last.op = "read"
  /\ last.flags \cap {"class", "rank", "lengths"} = {"lengths"}
  /\ last.status = "h5 read. Lengths mismatch"
  /\ Len(last.buf0) = 4

\* whether the dataset read by the last call holds at least one element
StoredNonEmpty == g[last.name].exists /\ Prod(g[last.name].dims) > 0

\* the case of C6 for read: the dataset exists, the h5_lengths_type is the one probed
\* from it, and the view is valid, of the stored rank and extents, and of another type
\* of the stored class
C6_SameClassCase ==
  /\ last.op = "read"
  /\ g[last.name].exists
  /\ {"probed", "valid", "type"} \subseteq last.flags
  /\ last.flags \cap {"class", "rank", "lengths"} = {}

\* the case of C6 for read_attribute: the attribute exists and has another type
C6_AttrCase == last.op = "read_attribute" /\ "type" \in last.flags

C6_AttrPart ==
  C6_AttrCase => /\ last.status # "ok"
                 /\ ~InTrace("H5Aread")
                 /\ last.buf = last.buf0

\* C6 as stated: on a type of the same class, read warns and performs the transfer;
\* read_attribute fails on any other type without the transfer
C6_SameClassAlwaysTransfers ==
  /\ C6_SameClassCase
       => InTrace("WARNING") /\ InTrace("H5Dread") /\ last.status = "ok"
  /\ C6_AttrPart

\* C6, amended: on a type of the same class, read warns and does not fail; it calls
\* H5Dread exactly when the stored dataset holds at least one element;
\* read_attribute fails on any other type without the transfer
C6_SameClassWarns ==
  /\ C6_SameClassCase
       => /\ InTrace("WARNING")
          /\ last.status = "ok"
          /\ InTrace("H5Dread") <=> StoredNonEmpty
  /\ (last.op = "read" /\ g[last.name].exists /\ "type" \in last.flags
        /\ last.flags \cap {"class", "rank", "lengths"} = {})
       => InTrace("WARNING") /\ last.status # "Incompatible types in h5_read"
  /\ C6_AttrPart

C6_Witness ==
  /\ C6_SameClassCase
  /\ StoredNonEmpty
  /\ InTrace("WARNING")
  /\ InTrace("H5Dread")
  /\ Len(last.got) = 2
  /\ last.got # g[last.name].data
  /\ \E a \in oattr : a.ty = "int16"

C6_WitnessAttr ==
  /\ C6_AttrCase
  /\ "class" \notin last.flags
  /\ "scalar" \in last.flags
  /\ last.status = "Type mismatch in reading attribute"

Transfers == {"write", "write_attribute", "read", "read_attribute"}

\* C7: every handle a transfer function acquires is released when it exits: the
\* call leaves as many handles open as it found
C7_HandlesReleased == last.op \in Transfers => last.leak = 0

\* the offset of an index vector under the strides stri
OffsetStri(idx, stri) == SumTo([d \in 1..Len(stri) |-> idx[d] * stri[d]], Len(stri))

\* the row-major offset, in extents Ltot, of the point idx[d] * strides[d]
OffsetH5(idx, Ltot, strides) ==
  SumTo([d \in 1..Len(Ltot) |-> idx[d] * strides[d] * ProdFrom(Ltot, d + 1)],
        Len(Ltot))

C8_Case ==
  /\ dec.called
  /\ dec.rank >= 1
  /\ dec.total > 0
  /\ \A d \in 1..dec.rank : dec.stri[d] > 0

\* C8: for rank >= 1, total_size > 0 and positive strides, L_tot[0] is total_size,
\* every division is exact, strides_h5[d] times the product of the L_tot after d is
\* stri[d], and both addressings give every index vector the same offset
C8_StrideDecomposition ==
  C8_Case
  => /\ dec.status = "returned"
     /\ dec.exact
     /\ Len(dec.Ltot) = dec.rank /\ Len(dec.strides) = dec.rank
     /\ dec.Ltot[1] = dec.total
     /\ \A d \in 1..dec.rank :
          dec.strides[d] * ProdFrom(dec.Ltot, d + 1) = dec.stri[d]
     /\ \A idx \in [1..dec.rank -> 0..MaxIdx] :
          OffsetH5(idx, dec.Ltot, dec.strides) = OffsetStri(idx, dec.stri)

C8_Witness ==
  /\ C8_Case
  /\ dec.stri = <<6, 2, 1>>
  /\ dec.total = 2
  /\ dec.Ltot = <<2, 3, 2>>
  /\ dec.strides = <<1, 1, 1>>

\* C9: get_L_tot_and_strides_h5 returns for every rank, total_size and stride
\* vector, zeros included, without dividing by zero; rank 0 gives two empty vectors
\* and total_size 0 gives zeros and ones, both before the loop
C9_NoFailureMode ==
  dec.called
  => /\ dec.status = "returned"
     /\ ~dec.dz
     /\ dec.rank = 0 => dec.Ltot = <<>> /\ dec.strides = <<>> /\ ~dec.loop
     /\ (dec.rank > 0 /\ dec.total = 0)
          => /\ dec.Ltot = Const(dec.rank, 0)
             /\ dec.strides = Const(dec.rank, 1)
             /\ ~dec.loop

\* C10: a write whose memory dataspace selects no element creates the dataset,
\* does not call H5Dwrite and returns successfully
C10_EmptySelectionSkipsTransfer ==
  (last.op = "write" /\ last.memsel = 0)
  => /\ InTrace("H5Dcreate2")
     /\ ~InTrace("H5Dwrite")
     /\ last.status = "ok"

====
